---- MODULE Spec2Model ----
(***************************************************************************)
(* quick_plot.py: a command-line script that reads output/<name>.csv,      *)
(* computes four statistics of the columns k, v, q, renders two plots,     *)
(* saves output/<name>_plot.png, displays the figure and reports the       *)
(* outcome through the process exit code.                                  *)
(*                                                                         *)
(* The model follows the script statement by statement.  Speeds (column    *)
(* v) are counted in tenths of a km/h, so that the literal 0.1 of line 36  *)
(* is the integer SpeedThresholdTenths; k and q are small naturals.        *)
(***************************************************************************)
EXTENDS Integers, Sequences, FiniteSets, TLC

\* ------------------------------------------------------------------ bounds
MaxRows == 2
MaxVal == 2
MaxSpeedTenths == 2
MaxArgc == 3

\* the literal 0.1 of line 36, in tenths
SpeedThresholdTenths == 1

VARIABLES
    argc,       \* len(sys.argv)
    csv,        \* output/<name>.csv: "absent", "garbled" (read_csv raises), "table"
    png,        \* output/<name>_plot.png: "absent", "old" (left by an earlier run), "new"
    out_dir,    \* whether the directory output/ exists
    pc,         \* the statement about to run
    df,         \* plot_traffic_data's local df: {} unbound, {t} bound to table t
    stats,      \* plot_traffic_data's locals q_max, k_opt, v_free, k_jam (a partial record)
    fig,        \* whether the figure has been drawn (lines 39-71)
    ptd_ret,    \* the value plot_traffic_data returned: {} not returned, {TRUE}, {FALSE}
    main_ret,   \* the value main returned: {} not returned, {0}, {1}
    exc,        \* the exception that was raised, "none" when none was
    sigint_at,  \* the statement a keyboard interrupt was delivered in, "none" when none was
    exit_code,  \* the process exit code: {} while running or when killed, {0}, {1}
    trace       \* the side effects so far, in order

vars == <<argc, csv, png, out_dir, pc, df, stats, fig, ptd_ret, main_ret, exc,
          sigint_at, exit_code, trace>>

\* ------------------------------------------------------------------ tables
Cols == {"k", "v", "q"}

ColValues(c) == IF c = "v" THEN 0..MaxSpeedTenths ELSE 0..MaxVal

RowsOver(cols) ==
    {r \in [cols -> 0..(MaxVal + MaxSpeedTenths)] : \A c \in cols : r[c] \in ColValues(c)}

\* the headers pd.read_csv can return: some of the columns
Headers == (SUBSET Cols) \ {{}}

\* not-a-number, the maximum pandas gives for an empty column
NaN == "nan"

SetMax(S) == CHOOSE x \in S : \A y \in S : y <= x
SetMin(S) == CHOOSE x \in S : \A y \in S : x <= y

\* df[c] as a sequence
Column(t, c) == [i \in 1..Len(t.rows) |-> t.rows[i][c]]

\* Series.max()
SeriesMax(s) == IF Len(s) = 0 THEN NaN ELSE SetMax({s[i] : i \in 1..Len(s)})

\* a plausible slip: the last row holding the maximum
IdxMaxLast(s) == SetMax({i \in 1..Len(s) : s[i] = SeriesMax(s)})

\* Series.idxmax(): the label of the first row holding the maximum (s non-empty)
IdxMax(s) == SetMin({i \in 1..Len(s) : s[i] = SeriesMax(s)})

\* df.empty
Empty(t) == Len(t.rows) = 0 \/ t.cols = {}

\* line 33
QMax(t) == SeriesMax(Column(t, "q"))

\* line 34
KOpt(t) == t.rows[IdxMax(Column(t, "q"))]["k"]

\* a plausible slip: the largest speed
VFreeMax(t) == IF ~Empty(t) THEN SeriesMax(Column(t, "v")) ELSE 0

\* line 35
VFree(t) == IF ~Empty(t) THEN Column(t, "v")[1] ELSE 0

\* a plausible slip: a strict comparison
JamRowsStrict(t) == {i \in 1..Len(t.rows) : t.rows[i]["v"] < SpeedThresholdTenths}

\* line 36: the rows selected by df['v'] <= 0.1
JamRows(t) == {i \in 1..Len(t.rows) : t.rows[i]["v"] <= SpeedThresholdTenths}

\* line 36
KJam(t) ==
    IF JamRows(t) # {}
    THEN SetMin({t.rows[i]["k"] : i \in JamRows(t)})
    ELSE SeriesMax(Column(t, "k"))

\* ------------------------------------------------------------------ start
Init ==
    /\ argc \in 1..MaxArgc
    /\ csv \in {"absent", "garbled", "table"}
    /\ png \in {"absent", "old"}
    /\ out_dir \in BOOLEAN
    /\ (csv # "absent" \/ png # "absent") => out_dir
    /\ pc = "import"
    /\ df = {}
    /\ stats = <<>>
    /\ fig = FALSE
    /\ ptd_ret = {}
    /\ main_ret = {}
    /\ exc = "none"
    /\ sigint_at = "none"
    /\ exit_code = {}
    /\ trace = <<>>

\* an exception leaves plot_traffic_data and main: their locals are gone
Unwind(e) ==
    /\ exc' = e
    /\ df' = {}
    /\ stats' = <<>>
    /\ pc' = "except_exception"

TheDf == CHOOSE t \in df : TRUE

\* ------------------------------------------------------------------ steps
\* lines 7-11 and 105-107: the imports, then the try block calls main()
Import ==
    /\ pc = "import"
    /\ pc' = "main_args"
    /\ UNCHANGED <<argc, csv, png, out_dir, df, stats, fig, ptd_ret, main_ret, exc,
                   sigint_at, exit_code, trace>>

\* lines 90-95: the argument count
MainArgs ==
    /\ pc = "main_args"
    /\ IF argc # 2
       THEN /\ trace' = Append(trace, "print_usage")
            /\ main_ret' = {1}
            /\ pc' = "sys_exit"
       ELSE /\ pc' = "makedirs"
            /\ UNCHANGED <<trace, main_ret>>
    /\ UNCHANGED <<argc, csv, png, out_dir, df, stats, fig, ptd_ret, exc, sigint_at,
                   exit_code>>

\* line 98: os.makedirs("output", exist_ok=True), then line 101 calls
\* plot_traffic_data
MainMakedirs ==
    /\ pc = "makedirs"
    /\ out_dir' = TRUE
    /\ trace' = Append(trace, "makedirs")
    /\ pc' = "ptd_exists"
    /\ UNCHANGED <<argc, csv, png, df, stats, fig, ptd_ret, main_ret, exc, sigint_at,
                   exit_code>>

\* a plausible slip: no existence check before the read
PtdExistsUnchecked ==
    /\ pc = "ptd_exists"
    /\ pc' = "ptd_read"
    /\ UNCHANGED <<argc, csv, png, out_dir, df, stats, fig, ptd_ret, main_ret, exc,
                   sigint_at, exit_code, trace>>

\* lines 17-23: the existence check
PtdExists ==
    /\ pc = "ptd_exists"
    /\ IF csv = "absent"
       THEN /\ trace' = Append(trace, "print_not_found")
            /\ ptd_ret' = {FALSE}
            /\ pc' = "main_return"
       ELSE /\ pc' = "ptd_read"
            /\ UNCHANGED <<trace, ptd_ret>>
    /\ UNCHANGED <<argc, csv, png, out_dir, df, stats, fig, main_ret, exc, sigint_at,
                   exit_code>>

\* a plausible slip: the read outside any try, its exception escaping
PtdReadUncaught ==
    /\ pc = "ptd_read"
    /\ IF csv = "table"
       THEN /\ \E cs \in Headers : \E n \in 0..MaxRows : \E rs \in [1..n -> RowsOver(cs)] :
                  df' = {[cols |-> cs, rows |-> rs]}
            /\ trace' = Append(trace, "read_csv")
            /\ pc' = "stat_q_max"
            /\ UNCHANGED <<exc, stats>>
       ELSE /\ trace' = Append(trace, "read_csv")
            /\ Unwind("ParserError")
    /\ UNCHANGED <<argc, csv, png, out_dir, fig, ptd_ret, main_ret, sigint_at, exit_code>>

\* lines 26-30: pd.read_csv inside try / except Exception
PtdRead ==
    /\ pc = "ptd_read"
    /\ IF csv = "table"
       THEN /\ \E cs \in Headers : \E n \in 0..MaxRows : \E rs \in [1..n -> RowsOver(cs)] :
                  df' = {[cols |-> cs, rows |-> rs]}
            /\ trace' = Append(trace, "read_csv")
            /\ pc' = "stat_q_max"
            /\ UNCHANGED ptd_ret
       ELSE /\ trace' = trace \o <<"read_csv", "print_read_error">>
            /\ ptd_ret' = {FALSE}
            /\ pc' = "main_return"
            /\ UNCHANGED df
    /\ UNCHANGED <<argc, csv, png, out_dir, stats, fig, main_ret, exc, sigint_at,
                   exit_code>>

\* line 33: q_max = df['q'].max()
StatQMax ==
    /\ pc = "stat_q_max"
    /\ IF "q" \notin TheDf.cols
       THEN Unwind("KeyError")
       ELSE /\ stats' = stats @@ ("q_max" :> QMax(TheDf))
            /\ pc' = "stat_k_opt"
            /\ UNCHANGED <<df, exc>>
    /\ UNCHANGED <<argc, csv, png, out_dir, fig, ptd_ret, main_ret, sigint_at, exit_code,
                   trace>>

\* a plausible slip: the statistics inside the try of the read, a failure
\* reported and turned into a False result
StatKOptCaught ==
    /\ pc = "stat_k_opt"
    /\ IF Len(TheDf.rows) = 0 \/ "k" \notin TheDf.cols
       THEN /\ trace' = Append(trace, "print_read_error")
            /\ ptd_ret' = {FALSE}
            /\ df' = {}
            /\ stats' = <<>>
            /\ pc' = "main_return"
       ELSE /\ stats' = stats @@ ("k_opt" :> KOpt(TheDf))
            /\ pc' = "stat_v_free"
            /\ UNCHANGED <<df, trace, ptd_ret>>
    /\ UNCHANGED <<argc, csv, png, out_dir, fig, main_ret, exc, sigint_at, exit_code>>

\* line 34: k_opt = df.loc[df['q'].idxmax(), 'k']; idxmax of an empty column
\* raises ValueError, a missing column k raises KeyError
StatKOpt ==
    /\ pc = "stat_k_opt"
    /\ IF Len(TheDf.rows) = 0
       THEN Unwind("ValueError")
       ELSE IF "k" \notin TheDf.cols
       THEN Unwind("KeyError")
       ELSE /\ stats' = stats @@ ("k_opt" :> KOpt(TheDf))
            /\ pc' = "stat_v_free"
            /\ UNCHANGED <<df, exc>>
    /\ UNCHANGED <<argc, csv, png, out_dir, fig, ptd_ret, main_ret, sigint_at, exit_code,
                   trace>>

\* line 35: v_free = df['v'].iloc[0] if not df.empty else 0
StatVFree ==
    /\ pc = "stat_v_free"
    /\ IF ~Empty(TheDf) /\ "v" \notin TheDf.cols
       THEN Unwind("KeyError")
       ELSE /\ stats' = stats @@ ("v_free" :> VFree(TheDf))
            /\ pc' = "stat_k_jam"
            /\ UNCHANGED <<df, exc>>
    /\ UNCHANGED <<argc, csv, png, out_dir, fig, ptd_ret, main_ret, sigint_at, exit_code,
                   trace>>

\* line 36: k_jam
StatKJam ==
    /\ pc = "stat_k_jam"
    /\ IF "v" \notin TheDf.cols
       THEN Unwind("KeyError")
       ELSE /\ stats' = stats @@ ("k_jam" :> KJam(TheDf))
            /\ pc' = "render"
            /\ UNCHANGED <<df, exc>>
    /\ UNCHANGED <<argc, csv, png, out_dir, fig, ptd_ret, main_ret, sigint_at, exit_code,
                   trace>>

\* lines 39-71: the figure, the two plots and the summary text
Render ==
    /\ pc = "render"
    /\ fig' = TRUE
    /\ trace' = Append(trace, "figure")
    /\ pc' = "savefig"
    /\ UNCHANGED <<argc, csv, png, out_dir, df, stats, ptd_ret, main_ret, exc, sigint_at,
                   exit_code>>

\* a plausible slip: the figure is never saved
SavefigSkipped ==
    /\ pc = "savefig"
    /\ pc' = "show"
    /\ UNCHANGED <<argc, csv, png, out_dir, df, stats, fig, ptd_ret, main_ret, exc,
                   sigint_at, exit_code, trace>>

\* lines 74-75: plt.tight_layout(); plt.savefig(plot_file, ...)
Savefig ==
    /\ pc = "savefig"
    /\ png' = "new"
    /\ trace' = Append(trace, "savefig")
    /\ pc' = "show"
    /\ UNCHANGED <<argc, csv, out_dir, df, stats, fig, ptd_ret, main_ret, exc, sigint_at,
                   exit_code>>

\* line 78: plt.show(), blocking until the window is closed
Show ==
    /\ pc = "show"
    /\ trace' = Append(trace, "show")
    /\ pc' = "print_success"
    /\ UNCHANGED <<argc, csv, png, out_dir, df, stats, fig, ptd_ret, main_ret, exc,
                   sigint_at, exit_code>>

\* lines 80-82: the three success lines start with U+2713; print raises
\* UnicodeEncodeError when the encoding of sys.stdout has no such character
PrintSuccess ==
    /\ pc = "print_success"
    /\ \E encodable \in BOOLEAN :
          IF encodable
          THEN /\ trace' = Append(trace, "print_success")
               /\ pc' = "ptd_return"
               /\ UNCHANGED <<df, stats, exc>>
          ELSE /\ Unwind("UnicodeEncodeError")
               /\ UNCHANGED trace
    /\ UNCHANGED <<argc, csv, png, out_dir, fig, ptd_ret, main_ret, sigint_at, exit_code>>

\* line 84: return True
PtdReturn ==
    /\ pc = "ptd_return"
    /\ ptd_ret' = {TRUE}
    /\ df' = {}
    /\ stats' = <<>>
    /\ pc' = "main_return"
    /\ UNCHANGED <<argc, csv, png, out_dir, fig, main_ret, exc, sigint_at, exit_code,
                   trace>>

\* a plausible slip: main ignores the result
MainReturnZero ==
    /\ pc = "main_return"
    /\ main_ret' = {0}
    /\ pc' = "sys_exit"
    /\ UNCHANGED <<argc, csv, png, out_dir, df, stats, fig, ptd_ret, exc, sigint_at,
                   exit_code, trace>>

\* lines 101-103: success = plot_traffic_data(...); return 0 if success else 1
MainReturn ==
    /\ pc = "main_return"
    /\ main_ret' = IF ptd_ret = {TRUE} THEN {0} ELSE {1}
    /\ pc' = "sys_exit"
    /\ UNCHANGED <<argc, csv, png, out_dir, df, stats, fig, ptd_ret, exc, sigint_at,
                   exit_code, trace>>

\* lines 107-108: exit_code = main(); sys.exit(exit_code)
SysExit ==
    /\ pc = "sys_exit"
    /\ exit_code' = main_ret
    /\ pc' = "exited"
    /\ UNCHANGED <<argc, csv, png, out_dir, df, stats, fig, ptd_ret, main_ret, exc,
                   sigint_at, trace>>

\* lines 112-114: except Exception
ExceptException ==
    /\ pc = "except_exception"
    /\ trace' = Append(trace, "print_error")
    /\ exit_code' = {1}
    /\ pc' = "exited"
    /\ UNCHANGED <<argc, csv, png, out_dir, df, stats, fig, ptd_ret, main_ret, exc,
                   sigint_at>>

\* a plausible slip: the interrupt reported as a failure
ExceptKeyboardInterruptFails ==
    /\ pc = "except_keyboard_interrupt"
    /\ trace' = Append(trace, "print_interrupted")
    /\ exit_code' = {1}
    /\ pc' = "exited"
    /\ UNCHANGED <<argc, csv, png, out_dir, df, stats, fig, ptd_ret, main_ret, exc,
                   sigint_at>>

\* lines 109-111: except KeyboardInterrupt
ExceptKeyboardInterrupt ==
    /\ pc = "except_keyboard_interrupt"
    /\ trace' = Append(trace, "print_interrupted")
    /\ exit_code' = {0}
    /\ pc' = "exited"
    /\ UNCHANGED <<argc, csv, png, out_dir, df, stats, fig, ptd_ret, main_ret, exc,
                   sigint_at>>

\* the statements of the try block, lines 106-108, and of what it calls
TryBlock ==
    {"main_args", "makedirs", "ptd_exists", "ptd_read", "stat_q_max", "stat_k_opt",
     "stat_v_free", "stat_k_jam", "render", "savefig", "show", "print_success",
     "ptd_return", "main_return", "sys_exit"}

\* a keyboard interrupt (SIGINT) delivered while the statement at pc runs:
\* KeyboardInterrupt is raised there.  It is no Exception, so the except of
\* line 28 lets it pass; inside the try block it reaches line 109; during
\* the imports or inside a handler nothing catches it and the interpreter
\* dies of it without an exit code of its own.
Interrupt ==
    /\ pc \notin {"exited", "killed"}
    /\ sigint_at = "none"
    /\ sigint_at' = pc
    /\ exc' = "KeyboardInterrupt"
    /\ df' = {}
    /\ stats' = <<>>
    /\ pc' = IF pc \in TryBlock THEN "except_keyboard_interrupt" ELSE "killed"
    /\ UNCHANGED <<argc, csv, png, out_dir, fig, ptd_ret, main_ret, exit_code, trace>>

\* ------------------------------------------------------------------ specifications
\* a run in which no signal arrives
Next ==
    \/ Import
    \/ MainArgs
    \/ MainMakedirs
    \/ PtdExists
    \/ PtdRead
    \/ StatQMax
    \/ StatKOpt
    \/ StatVFree
    \/ StatKJam
    \/ Render
    \/ Savefig
    \/ Show
    \/ PrintSuccess
    \/ PtdReturn
    \/ MainReturn
    \/ SysExit
    \/ ExceptException

Spec == Init /\ [][Next]_vars

\* a run in which the user may press Ctrl-C
NextInt ==
    \/ Next
    \/ Interrupt
    \/ ExceptKeyboardInterrupt

SpecInt == Init /\ [][NextInt]_vars

\* ------------------------------------------------------------------ properties
Happened(e) == \E i \in 1..Len(trace) : trace[i] = e

Last(s) == s[Len(s)]

\* all four statistics are bound: the statements from line 39 to line 84
Reported == pc \in {"render", "savefig", "show", "print_success", "ptd_return"}

\* C1: for a table with at least one row, the reported q_max is the largest
\* value of column q, and k_opt is the k of the first row, in file order,
\* whose q is that largest value.
C1_MaxFlow ==
    Reported =>
        LET rows == TheDf.rows
        IN  /\ Len(rows) >= 1
            /\ \A i \in 1..Len(rows) : rows[i]["q"] <= stats["q_max"]
            /\ \E i \in 1..Len(rows) :
                  /\ rows[i]["q"] = stats["q_max"]
                  /\ \A j \in 1..(i - 1) : rows[j]["q"] < stats["q_max"]
                  /\ stats["k_opt"] = rows[i]["k"]

\* two rows tie for the maximum and differ in k: the first one is reported
C1_Witness ==
    /\ Reported
    /\ Len(TheDf.rows) = 2
    /\ TheDf.rows[1]["q"] = TheDf.rows[2]["q"]
    /\ TheDf.rows[1]["k"] # TheDf.rows[2]["k"]
    /\ stats["k_opt"] = TheDf.rows[1]["k"]

\* C2: the reported k_jam is the smallest k among the rows with v <= 0.1
\* when there is such a row, a row with v = 0.1 being one, and the largest k
\* of the table when there is none.
C2_JamDensity ==
    Reported =>
        LET rows == TheDf.rows
            slow == {i \in 1..Len(rows) : rows[i]["v"] < SpeedThresholdTenths
                                            \/ rows[i]["v"] = SpeedThresholdTenths}
            ks(I) == {rows[i]["k"] : i \in I}
        IN  IF slow # {}
            THEN /\ stats["k_jam"] \in ks(slow)
                 /\ \A x \in ks(slow) : stats["k_jam"] <= x
            ELSE /\ stats["k_jam"] \in ks(1..Len(rows))
                 /\ \A x \in ks(1..Len(rows)) : x <= stats["k_jam"]

\* the only slow row has v exactly 0.1 and a k below the largest k
C2_Witness ==
    /\ Reported
    /\ Len(TheDf.rows) = 2
    /\ TheDf.rows[1]["v"] > SpeedThresholdTenths
    /\ TheDf.rows[2]["v"] = SpeedThresholdTenths
    /\ TheDf.rows[2]["k"] < TheDf.rows[1]["k"]
    /\ stats["k_jam"] = TheDf.rows[2]["k"]

\* C3: with no csv file, plot_traffic_data reports it and returns False
\* without reading, computing, rendering or writing the png, and the
\* process exits with code 1.
C3_MissingFile ==
    (csv = "absent" /\ argc = 2) =>
        /\ ~Happened("read_csv")
        /\ df = {} /\ stats = <<>>
        /\ ~fig /\ ~Happened("savefig") /\ png # "new"
        /\ exc = "none"
        /\ pc \in {"main_return", "sys_exit", "exited"} =>
              /\ ptd_ret = {FALSE}
              /\ Happened("print_not_found")
        /\ pc = "exited" => exit_code = {1}

C3_Witness ==
    /\ csv = "absent" /\ argc = 2
    /\ pc = "exited"
    /\ ptd_ret = {FALSE}
    /\ exit_code = {1}
    /\ trace = <<"makedirs", "print_not_found">>

\* C4: with a csv file that cannot be read as a table, plot_traffic_data
\* returns False as a value: no exception leaves it, no statistic is
\* computed and no png is written.
C4_Unparseable ==
    (csv = "garbled" /\ argc = 2) =>
        /\ exc = "none" /\ pc # "except_exception"
        /\ df = {} /\ stats = <<>>
        /\ ~fig /\ ~Happened("savefig") /\ png # "new"
        /\ pc \in {"main_return", "sys_exit", "exited"} =>
              /\ ptd_ret = {FALSE}
              /\ Happened("print_read_error")

C4_Witness ==
    /\ csv = "garbled"
    /\ pc = "main_return"
    /\ ptd_ret = {FALSE}
    /\ Last(trace) = "print_read_error"

\* with any other argument count than one, main returns 1 before the
\* directory is made or plot_traffic_data is called
BadArgcReturnsEarly ==
    argc # 2 =>
        /\ ~Happened("makedirs")
        /\ ptd_ret = {}
        /\ pc \in {"import", "main_args", "sys_exit", "exited", "killed",
                   "except_keyboard_interrupt"}
        /\ pc \in {"sys_exit", "exited"} /\ exc = "none" => main_ret = {1}

\* C5 as stated: the exit code is 0 exactly when plot_traffic_data returned
\* True and 1 in every other case.
C5_Original ==
    /\ BadArgcReturnsEarly
    /\ pc = "exited" =>
          /\ exit_code = {0} <=> ptd_ret = {TRUE}
          /\ exit_code = {1} <=> ptd_ret # {TRUE}

\* C5, amended: the exit code is 0 exactly when plot_traffic_data returned
\* True or a keyboard interrupt was caught by the handler of lines 109-111,
\* and 1 in every other case in which the process exits.
C5_ExitCode ==
    /\ BadArgcReturnsEarly
    /\ pc = "exited" =>
          /\ exit_code = {0} <=> (ptd_ret = {TRUE} \/ exc = "KeyboardInterrupt")
          /\ exit_code = {1} <=> (ptd_ret # {TRUE} /\ exc # "KeyboardInterrupt")

\* a run that fails (no file) and is interrupted before it exits ends with 0
C5_Witness ==
    /\ pc = "exited"
    /\ ptd_ret = {FALSE}
    /\ sigint_at = "sys_exit"
    /\ exit_code = {0}

\* C6: when plot_traffic_data has returned True the png has been written,
\* and it was written before the display call and before the success lines.
C6_SavedBeforeSuccess ==
    /\ ptd_ret = {TRUE} => (png = "new" /\ Happened("savefig"))
    /\ \A i \in 1..Len(trace) :
          trace[i] \in {"show", "print_success"} =>
              \E j \in 1..(i - 1) : trace[j] = "savefig"
    /\ pc \in {"show", "print_success", "ptd_return"} => png = "new"

C6_Witness ==
    /\ ptd_ret = {TRUE}
    /\ png = "new"
    /\ trace = <<"makedirs", "read_csv", "figure", "savefig", "show", "print_success">>

\* C7: only a missing or unreadable file gives a False result; a table
\* that lacks a column or has no rows does not get past the statistics, its
\* exception leaves plot_traffic_data and main without a result and reaches
\* the handler of line 112, which prints it and exits with code 1.
C7_OtherExceptions ==
    /\ ptd_ret = {FALSE} => csv # "table"
    /\ Reported => (TheDf.cols = Cols /\ Len(TheDf.rows) >= 1)
    /\ exc # "none" =>
          /\ ptd_ret = {} /\ main_ret = {}
          /\ pc \in {"except_exception", "exited"}
          /\ pc = "exited" => (exit_code = {1} /\ Last(trace) = "print_error")

\* a header and no rows: ValueError from idxmax
C7_Witness ==
    /\ exc = "ValueError"
    /\ pc = "exited"
    /\ exit_code = {1}
    /\ trace = <<"makedirs", "read_csv", "print_error">>

\* C8: a run that ends in failure (a False result or exit code 1) has not
\* written the png.
C8_Atomic ==
    (pc = "exited" /\ (ptd_ret = {FALSE} \/ exit_code = {1})) =>
        (~Happened("savefig") /\ png # "new")

\* C9 as stated: an interrupt delivered at any point is caught by the
\* handler of lines 109-111, which prints and exits with code 0.
C9_Original ==
    sigint_at # "none" =>
        /\ pc \in {"except_keyboard_interrupt", "exited"}
        /\ pc = "exited" => (exit_code = {0} /\ Last(trace) = "print_interrupted")

\* C9, amended: an interrupt delivered while the try block of lines 106-108
\* runs (main and all it calls) is caught by the handler of lines 109-111,
\* which prints and exits with code 0, never by the handler of line 112 and
\* never with code 1; one delivered during the imports or inside a handler
\* is not caught.
C9_Interrupt ==
    /\ sigint_at \in TryBlock =>
          /\ pc \in {"except_keyboard_interrupt", "exited"}
          /\ pc = "exited" => (exit_code = {0} /\ Last(trace) = "print_interrupted")
    /\ sigint_at \in {"import", "except_exception", "except_keyboard_interrupt"} =>
          (pc = "killed" /\ exit_code = {})
    /\ sigint_at # "none" => ~Happened("print_error")

\* interrupted in the blocking display call
C9_Witness ==
    /\ sigint_at = "show"
    /\ pc = "exited"
    /\ exit_code = {0}
    /\ Last(trace) = "print_interrupted"

\* C10: the reported v_free is the v of the first row in file order.
C10_FreeFlow ==
    Reported => stats["v_free"] = TheDf.rows[1]["v"]

\* the first row has neither the largest v nor the smallest k
C10_Witness ==
    /\ Reported
    /\ Len(TheDf.rows) = 2
    /\ TheDf.rows[1]["v"] < TheDf.rows[2]["v"]
    /\ TheDf.rows[1]["k"] > TheDf.rows[2]["k"]
    /\ stats["v_free"] = TheDf.rows[1]["v"]
====
